---------------------------- MODULE Spec2Model ----------------------------
(***************************************************************************)
(* A model of morar: morar/create_tables.py (class results_directory: the  *)
(* directory-to-sqlite ingestion) and morar/utils.py (column               *)
(* classification, missing data handling, header inflate / collapse and    *)
(* the merge of two columns).                                              *)
(*                                                                         *)
(* Python strings are sequences of one-character strings, so that          *)
(* str.startswith, the `in` test, str.split and the regular expression of  *)
(* results_directory.__init__ are computed character by character.         *)
(*                                                                         *)
(* The functions of utils.py are pure: their specifications draw the       *)
(* arguments in Init (data, args) and one action per function stores what  *)
(* the call returns or raises (result).                                    *)
(***************************************************************************)
EXTENDS Integers, Sequences, FiniteSets, TLC

VARIABLES
    \* ---- utils.py: one call of one function
    data,          \* the DataFrame argument
    args,          \* the other arguments of the call
    result,        \* what the call returned or raised; NotCalled before it
    \* ---- create_tables.py: the file system, the store, one results_directory
    listing,       \* os.listdir(file_path), in enumeration order
    health,        \* per file: can it be read by pandas, written by to_sql
    store,         \* the sqlite store: table name -> set of rows
    store0,        \* history: the store when the latest to_db() was entered
    constructed,   \* a results_directory object exists
    truncate,      \* the truncate argument it was built with
    full_paths,    \* self.full_paths
    csv_files,     \* self.csv_files
    engine,        \* self.engine: "unset" until somebody assigns it
    raised,        \* the exception the latest call ended with, or "none"
    db_status,     \* latest to_db(): "none" | "done" | "raised"
    db_at          \* latest to_db(): the index x it stopped at

utilVars == <<data, args, result>>
dirVars == <<listing, health, store, store0, constructed, truncate,
             full_paths, csv_files, engine, raised, db_status, db_at>>
vars == <<data, args, result, listing, health, store, store0, constructed,
          truncate, full_paths, csv_files, engine, raised, db_status, db_at>>

(***************************************************************************)
(* Bounds of the model.                                                    *)
(***************************************************************************)
MaxCols == 2       \* columns of a table
MaxRows == 2       \* rows of a table
MaxLabelLen == 2   \* characters of a column label or of a marker string
MaxParts == 2      \* parts a file name's stem is made of
MaxFiles == 2      \* entries of a directory

(***************************************************************************)
(* Sequences and strings.                                                  *)
(***************************************************************************)
Range(s) == {s[i] : i \in DOMAIN s}

SeqsUpTo(S, n) == UNION {[1..k -> S] : k \in 0..n}

Distinct(s) == \A i, j \in DOMAIN s : i # j => s[i] # s[j]

Max(S) == CHOOSE m \in S : \A k \in S : k <= m

Min(S) == CHOOSE m \in S : \A k \in S : m <= k

RECURSIVE Flatten(_)
Flatten(ss) == IF ss = <<>> THEN <<>> ELSE Head(ss) \o Flatten(Tail(ss))

\* str.startswith
StartsWith(s, p) == Len(p) <= Len(s) /\ SubSeq(s, 1, Len(p)) = p

\* str.endswith
EndsWith(s, p) ==
    Len(p) <= Len(s) /\ SubSeq(s, Len(s) - Len(p) + 1, Len(s)) = p

\* p in s
Contains(s, p) ==
    \E i \in 1..(Len(s) - Len(p) + 1) : SubSeq(s, i, i + Len(p) - 1) = p

NotCalled == [op |-> "none"]

UtilIdle == data = <<>> /\ args = <<>> /\ result = NotCalled

\* No results_directory object yet.
NewObject ==
    /\ constructed = FALSE /\ truncate = FALSE
    /\ full_paths = <<>> /\ csv_files = <<>>
    /\ raised = "none" /\ db_status = "none" /\ db_at = 0

DirIdle ==
    /\ listing = <<>> /\ health = <<>> /\ store = <<>> /\ store0 = <<>>
    /\ engine = "unset" /\ NewObject

(***************************************************************************)
(* utils.py: get_featuredata, get_metadata.                                *)
(***************************************************************************)
LabelAlphabet == {"M", "x"}

Labels == SeqsUpTo(LabelAlphabet, MaxLabelLen)

get_featuredata(d, metadata_string, prefix) ==
    IF prefix
    THEN SelectSeq(d.columns, LAMBDA i : ~StartsWith(i, metadata_string))
    ELSE SelectSeq(d.columns, LAMBDA i : ~Contains(i, metadata_string))

\* A get_metadata that ignores the prefix flag.
get_metadata_prefix_only(d, metadata_string, prefix) ==
    SelectSeq(d.columns, LAMBDA i : StartsWith(i, metadata_string))

get_metadata(d, metadata_string, prefix) ==
    IF prefix
    THEN SelectSeq(d.columns, LAMBDA i : StartsWith(i, metadata_string))
    ELSE SelectSeq(d.columns, LAMBDA i : Contains(i, metadata_string))

InitClassify ==
    /\ DirIdle
    /\ data \in {[columns |-> c] : c \in SeqsUpTo(Labels, MaxCols)}
    /\ args \in [metadata_string : Labels, prefix : BOOLEAN]
    /\ result = NotCalled

\* One call of each of the two functions with the same arguments.
Classify ==
    /\ result = NotCalled
    /\ result' = [op |-> "classify",
                  f_cols |-> get_featuredata(data, args.metadata_string,
                                             args.prefix),
                  m_cols |-> get_metadata(data, args.metadata_string,
                                          args.prefix)]
    /\ UNCHANGED <<data, args>>

(***************************************************************************)
(* utils.py: drop.  A cell is "NaN" or a value; a threshold is             *)
(* tn / ThresholdDen, and a proportion nulls / nrows is compared to it in  *)
(* whole numbers.                                                          *)
(***************************************************************************)
ThresholdDen == 4

Nulls(d, c) == Cardinality({r \in DOMAIN d.rows : d.rows[r][c] = "NaN"})

\* prop_nan >= threshold.  The proportions of a table without rows are
\* 0 / 0 = nan in numpy, and nan >= threshold is False.
PropGe(d, c, tn) ==
    Len(d.rows) # 0 /\ Nulls(d, c) * ThresholdDen >= tn * Len(d.rows)

\* prop_nan > threshold, as the docstring of drop words it.
PropGt(d, c, tn) ==
    Len(d.rows) # 0 /\ Nulls(d, c) * ThresholdDen > tn * Len(d.rows)

\* DataFrame.dropna() of the rows restricted to the columns cols: the labels
\* of the rows that hold no NaN.
dropna(d, cols) ==
    SelectSeq(d.index, LAMBDA r : \A c \in Range(cols) : d.rows[r][c] # "NaN")

drop_frame(d, cols) ==
    LET kept == dropna(d, cols)
    IN  [op |-> "drop", raised |-> "none", columns |-> cols, index |-> kept,
         rows |-> [r \in Range(kept) |-> [c \in Range(cols) |-> d.rows[r][c]]]]

drop_gt(d, tn) ==
    IF tn < 0 \/ tn > ThresholdDen
    THEN [op |-> "drop", raised |-> "ValueError"]
    ELSE drop_frame(d, SelectSeq(d.columns, LAMBDA c : ~PropGt(d, c, tn)))

drop(d, tn) ==
    IF tn < 0 \/ tn > ThresholdDen
    THEN [op |-> "drop", raised |-> "ValueError"]
    ELSE drop_frame(d, SelectSeq(d.columns, LAMBDA c : ~PropGe(d, c, tn)))

\* A table of nc columns and nr rows, labelled 1.., with cells from cells.
Frames(nc, nr, cells) ==
    {[columns |-> [i \in 1..nc |-> i], index |-> [i \in 1..nr |-> i],
      rows |-> rs] : rs \in [1..nr -> [1..nc -> cells]]}

InitDrop ==
    /\ DirIdle
    /\ data \in UNION {Frames(nc, nr, {"NaN", "v"}) :
                          nc \in 0..MaxCols, nr \in 0..MaxRows}
    /\ args \in [tn : (0 - 1)..(ThresholdDen + 1)]
    /\ result = NotCalled

Drop ==
    /\ result = NotCalled
    /\ result' = drop(data, args.tn)
    /\ UNCHANGED <<data, args>>

(***************************************************************************)
(* utils.py: impute.  A cell is NaN (the empty tuple) or the number n / d  *)
(* written <<n, d>> in lowest terms.                                       *)
(***************************************************************************)
NaN == <<>>

RECURSIVE GCD(_, _)
GCD(a, b) == IF b = 0 THEN a ELSE GCD(b, a % b)

Ratio(n, d) == <<n \div GCD(n, d), d \div GCD(n, d)>>

RECURSIVE Sum(_)
Sum(s) == IF s = <<>> THEN 0 ELSE Head(s) + Sum(Tail(s))

RECURSIVE Sorted(_)
Sorted(s) ==
    IF s = <<>> THEN <<>>
    ELSE LET i == CHOOSE k \in DOMAIN s : \A j \in DOMAIN s : s[k] <= s[j]
         IN  <<s[i]>> \o Sorted(SubSeq(s, 1, i - 1) \o SubSeq(s, i + 1, Len(s)))

\* The values (whole numbers in the tables drawn) a column holds.
Present(d, c) ==
    LET rs == SelectSeq(d.index, LAMBDA r : d.rows[r][c] # NaN)
    IN  [i \in DOMAIN rs |-> d.rows[rs[i]][c][1]]

Mean(vs) == Ratio(Sum(vs), Len(vs))

Median(vs) ==
    LET o == Sorted(vs)
        n == Len(vs)
    IN  IF n % 2 = 1 THEN Ratio(o[(n + 1) \div 2], 1)
        ELSE Ratio(o[n \div 2] + o[n \div 2 + 1], 2)

Str_Metadata == <<"M", "e", "t", "a", "d", "a", "t", "a">>

\* The keyword arguments get_featuredata is called with: those passed, and
\* the defaults of its signature for the others.
KwMarker(kw) ==
    IF "metadata_string" \in kw.keys THEN kw.metadata_string ELSE Str_Metadata

KwPrefix(kw) == IF "prefix" \in kw.keys THEN kw.prefix ELSE TRUE

\* Imputer(strategy, **kwargs): __init__ has the parameters missing_values,
\* strategy, axis, verbose and copy, and takes no other keyword.
ImputerAccepts(kw) == kw.keys \subseteq {"missing_values", "axis", "verbose", "copy"}

impute(d, method, kw) ==
    IF ~ImputerAccepts(kw)
    THEN [op |-> "impute", raised |-> "TypeError"]
    ELSE LET f_cols == get_featuredata(d, KwMarker(kw), KwPrefix(kw))
         IN  IF \/ f_cols = <<>>
                \/ d.index = <<>>
                \/ \E c \in Range(f_cols) : Present(d, c) = <<>>
             THEN \* fit_transform refuses an empty array, and leaves a column
                  \* without any value out of what it returns
                  [op |-> "impute", raised |-> "ValueError"]
             ELSE [op |-> "impute", raised |-> "none",
                   columns |-> d.columns, index |-> d.index,
                   rows |-> [r \in Range(d.index) |->
                               [c \in Range(d.columns) |->
                                  IF c \notin Range(f_cols) \/ d.rows[r][c] # NaN
                                  THEN d.rows[r][c]
                                  ELSE IF method = "mean"
                                       THEN Mean(Present(d, c))
                                       ELSE Median(Present(d, c))]]]

ImputeLabels ==
    {Str_Metadata \o <<"_", "w">>, <<"x", "_">> \o Str_Metadata, <<"x">>}

LabelledFrames(cols, nr, cells) ==
    {[columns |-> cols, index |-> [i \in 1..nr |-> i], rows |-> rs] :
        rs \in [1..nr -> [Range(cols) -> cells]]}

Kwargs ==
    {[keys |-> ks, metadata_string |-> m, prefix |-> b] :
        ks \in SUBSET {"metadata_string", "prefix"},
        m \in {Str_Metadata, <<"x">>}, b \in BOOLEAN}

InitImpute ==
    /\ DirIdle
    /\ data \in UNION {LabelledFrames(cols, nr, {NaN, <<1, 1>>, <<2, 1>>}) :
                          cols \in {c \in SeqsUpTo(ImputeLabels, MaxCols) :
                                       Distinct(c)},
                          nr \in 0..(MaxRows + 1)}
    /\ args \in {[method |-> m, kwargs |-> kw] :
                    m \in {"mean", "median"},
                    kw \in {k \in Kwargs :
                               /\ "metadata_string" \notin k.keys
                                  => k.metadata_string = Str_Metadata
                               /\ "prefix" \notin k.keys => k.prefix}}
    /\ result = NotCalled

Impute ==
    /\ result = NotCalled
    /\ result' = impute(data, args.method, args.kwargs)
    /\ UNCHANGED <<data, args>>

(***************************************************************************)
(* utils.py: collapse_cols, inflate_cols.                                  *)
(***************************************************************************)
IsSpace(c) == c \in {" ", "\t", "\n", "\r"}

\* str.split(): the maximal runs of characters that are not whitespace.
split(s) ==
    LET starts == {i \in DOMAIN s :
                      ~IsSpace(s[i]) /\ (i = 1 \/ IsSpace(s[i - 1]))}
        EndOf(i) == Min({e \in i..Len(s) :
                            e = Len(s) \/ IsSpace(s[e + 1])})
        Nth(k) == CHOOSE i \in starts :
                      Cardinality({j \in starts : j < i}) = k - 1
    IN  [k \in 1..Cardinality(starts) |-> SubSeq(s, Nth(k), EndOf(Nth(k)))]

\* str.strip()
strip(s) ==
    LET inner == {i \in DOMAIN s : ~IsSpace(s[i])}
    IN  IF inner = {} THEN <<>> ELSE SubSeq(s, Min(inner), Max(inner))

DefaultSep == <<"_">>

\* A column label is the tuple of its level labels: <<label>> in a one-level
\* header, <<level1, level2>> in a two-level one.
collapse_cols(d, sep) ==
    [i \in DOMAIN d.columns |->
        strip(d.columns[i][1] \o sep \o d.columns[i][2])]

\* An inflate_cols that takes the first and the last token of a label.
inflate_first_last(d) ==
    LET split_cols == [i \in DOMAIN d.columns |-> split(d.columns[i][1])]
    IN  IF \E i \in DOMAIN split_cols : Len(split_cols[i]) < 2
        THEN [op |-> "inflate", raised |-> "IndexError"]
        ELSE [op |-> "inflate", raised |-> "none",
              header |-> [i \in DOMAIN split_cols |->
                            <<split_cols[i][1],
                              split_cols[i][Len(split_cols[i])]>>]]

inflate_cols(d) ==
    LET split_cols == [i \in DOMAIN d.columns |-> split(d.columns[i][1])]
    IN  IF \E i \in DOMAIN split_cols : Len(split_cols[i]) < 2
        THEN \* split_cols[0] or split_cols[1] is out of range
             [op |-> "inflate", raised |-> "IndexError"]
        ELSE [op |-> "inflate", raised |-> "none",
              header |-> [i \in DOMAIN split_cols |->
                            <<split_cols[i][1], split_cols[i][2]>>]]

\* The tokens of the two-level headers drawn, one of them with whitespace.
Tokens == {<<>>, <<"a">>, <<"b">>, <<"a", " ", "b">>}

MaxWords == 3

\* The labels of the one-level headers drawn.
FlatLabels ==
    {Flatten(ws) : ws \in SeqsUpTo({<<"a">>, <<" ", "a">>}, MaxWords)}
        \cup {<<"a", " ", " ", "b">>, <<"a", "\t", "b", " ">>}

NoHistory == [sep |-> <<>>, original |-> <<>>]

InitHeader ==
    /\ DirIdle
    /\ data \in {[nlevels |-> 2, columns |-> h] :
                    h \in SeqsUpTo(Tokens \X Tokens, MaxCols) \ {<<>>}}
                \cup {[nlevels |-> 1, columns |-> h] :
                         h \in SeqsUpTo({<<l>> : l \in FlatLabels}, MaxCols)
                                  \ {<<>>}}
    /\ args = NoHistory
    /\ result = NotCalled

\* df.columns = collapse_cols(df, sep)
Collapse(sep) ==
    /\ data.nlevels = 2
    /\ data' = [nlevels |-> 1,
                columns |-> [i \in DOMAIN data.columns |->
                               <<collapse_cols(data, sep)[i]>>]]
    /\ args' = [sep |-> sep, original |-> data.columns]
    /\ UNCHANGED result

\* inflate_cols(df)
Inflate ==
    /\ data.nlevels = 1
    /\ result = NotCalled
    /\ result' = inflate_cols(data)
    /\ UNCHANGED <<data, args>>

(***************************************************************************)
(* utils.py: merge_two_cols.                                               *)
(***************************************************************************)
\* pd.concat([data[col1].dropna(), data[col2].dropna()]): the (row label,
\* value) pairs of col1 and then those of col2.
concat_dropna(d) ==
    LET Pairs(col) ==
            LET rs == SelectSeq(d.index, LAMBDA r : col[r] # "NaN")
            IN  [i \in DOMAIN rs |-> <<rs[i], col[rs[i]]>>]
    IN  Pairs(d.col1) \o Pairs(d.col2)

\* A merge_two_cols that returns new_col as concatenated.
merge_no_reindex(d) ==
    LET new_col == concat_dropna(d)
    IN  [op |-> "merge", raised |-> "none",
         values |-> [i \in DOMAIN new_col |-> new_col[i][2]]]

merge_two_cols(d) ==
    LET new_col == concat_dropna(d)
        At(r) == {i \in DOMAIN new_col : new_col[i][1] = r}
    IN  IF d.index # <<>> /\ \E r \in Range(d.index) : Cardinality(At(r)) > 1
        THEN \* reindex_like: cannot reindex from a duplicate axis
             [op |-> "merge", raised |-> "ValueError"]
        ELSE [op |-> "merge", raised |-> "none",
              values |-> [i \in DOMAIN d.index |->
                            IF At(d.index[i]) = {} THEN "NaN"
                            ELSE new_col[CHOOSE k \in At(d.index[i]) : TRUE][2]]]

InitMerge ==
    /\ DirIdle
    /\ data \in UNION {
          {[index |-> ix, col1 |-> c1, col2 |-> c2] :
              ix \in {p \in [1..nr -> 1..nr] : Distinct(p)},
              c1 \in [1..nr -> {"NaN", "x", "y"}],
              c2 \in [1..nr -> {"NaN", "x", "y"}]} : nr \in 0..MaxRows}
    /\ args = <<>>
    /\ result = NotCalled

Merge ==
    /\ result = NotCalled
    /\ result' = merge_two_cols(data)
    /\ UNCHANGED <<data, args>>

(***************************************************************************)
(* create_tables.py: results_directory.                                    *)
(***************************************************************************)
Str_csv == <<".", "c", "s", "v">>

\* The matches of [^_][^_]+(?=.csv) that start at position i of s: the
\* positions e the match can end at.  `.` is any character but a newline.
MatchEnds(s, i) ==
    {e \in (i + 1)..Len(s) :
        /\ \A k \in i..e : s[k] # "_"
        /\ e + 4 <= Len(s)
        /\ s[e + 1] # "\n"
        /\ SubSeq(s, e + 2, e + 4) = <<"c", "s", "v">>}

NoMatch == [found |-> FALSE, group |-> <<>>]

\* A pattern that asks for the underscore in front of the group.
re_search_after_underscore(s) ==
    LET starts == {i \in 2..Len(s) : s[i - 1] = "_" /\ MatchEnds(s, i) # {}}
    IN  IF starts = {} THEN NoMatch
        ELSE LET i == Min(starts)
             IN  [found |-> TRUE, group |-> SubSeq(s, i, Max(MatchEnds(s, i)))]

\* re.search(p, csv): the leftmost start that matches, and from it the longest
\* match ([^_]+ is greedy); None when no start matches.
re_search(s) ==
    LET starts == {i \in 1..Len(s) : MatchEnds(s, i) # {}}
    IN  IF starts = {} THEN NoMatch
        ELSE LET i == Min(starts)
             IN  [found |-> TRUE, group |-> SubSeq(s, i, Max(MatchEnds(s, i)))]

\* The rows a readable file holds: every file has rows of its own.
Rows(f) == {f}

OldRows == {<<"o", "l", "d">>}

Put(st, name, rows) ==
    [n \in DOMAIN st \cup {name} |-> IF n = name THEN rows ELSE st[n]]

Remove(st, name) == [n \in DOMAIN st \ {name} |-> st[n]]

TableOf(st, name) == IF name \in DOMAIN st THEN st[name] ELSE {}

\* DataFrame.to_sql(if_exists = 'replace') that succeeds.
to_sql_append(st, name, rows) == Put(st, name, TableOf(st, name) \cup rows)

to_sql(st, name, rows) == Put(st, name, rows)

\* What a to_sql that raises can leave of the table: nothing was touched, the
\* old table was dropped, or it was dropped and created again without rows.
to_sql_failed(st, name) == {st, Remove(st, name), Put(st, name, {})}

\* to_db with the loop going on after a file that failed.
RECURSIVE to_db_continue(_, _)
to_db_continue(x, st) ==
    IF x > Len(full_paths)
    THEN {[store |-> st, status |-> "done", at |-> x, error |-> "none"]}
    ELSE IF health[full_paths[x]] = "ok" /\ engine = "set"
         THEN to_db_continue(x + 1,
                             to_sql(st, csv_files[x], Rows(full_paths[x])))
         ELSE to_db_continue(x + 1, st)

\* to_db from iteration x on with the store st: the outcomes of the call.
RECURSIVE to_db_from(_, _)
to_db_from(x, st) ==
    IF x > Len(full_paths)
    THEN {[store |-> st, status |-> "done", at |-> x, error |-> "none"]}
    ELSE LET f == full_paths[x]
         IN  IF health[f] = "unreadable"
             THEN {[store |-> st, status |-> "raised", at |-> x,
                    error |-> "IOError"]}
             ELSE IF engine = "unset"
             THEN {[store |-> st, status |-> "raised", at |-> x,
                    error |-> "AttributeError"]}
             ELSE IF health[f] = "unwritable"
             THEN {[store |-> s2, status |-> "raised", at |-> x,
                    error |-> "DatabaseError"] :
                      s2 \in to_sql_failed(st, csv_files[x])}
             ELSE to_db_from(x + 1, to_sql(st, csv_files[x], Rows(f)))

\* results_directory(file_path, truncate)
Construct(t) ==
    LET paths == SelectSeq(listing, LAMBDA i : EndsWith(i, Str_csv))
        found == [i \in DOMAIN paths |-> re_search(paths[i])]
    IN  /\ truncate' = t
        /\ db_status' = "none" /\ db_at' = 0
        /\ IF t /\ \E i \in DOMAIN found : ~found[i].found
           THEN \* .group() of None: no object is bound
                /\ constructed' = FALSE
                /\ full_paths' = <<>> /\ csv_files' = <<>>
                /\ raised' = "AttributeError"
           ELSE /\ constructed' = TRUE
                /\ full_paths' = paths
                /\ csv_files' = IF t
                                THEN [i \in DOMAIN found |-> found[i].group]
                                ELSE paths
                /\ raised' = "none"
        /\ UNCHANGED <<listing, health, store, store0, engine>>
        /\ UNCHANGED utilVars

\* create_db(): the % of line 53 is applied to the Engine object that
\* create_engine returned, which raises before self.engine is assigned.
create_db ==
    /\ constructed
    /\ raised' = "TypeError"
    /\ UNCHANGED <<listing, health, store, store0, constructed, truncate,
                   full_paths, csv_files, engine, db_status, db_at>>
    /\ UNCHANGED utilVars

\* to_db()
to_db ==
    /\ constructed
    /\ \E r \in to_db_from(1, store) :
          /\ store' = r.store
          /\ db_status' = r.status
          /\ db_at' = r.at
          /\ raised' = r.error
    /\ store0' = store
    /\ UNCHANGED <<listing, health, constructed, truncate, full_paths,
                   csv_files, engine>>
    /\ UNCHANGED utilVars

(***************************************************************************)
(* Discovery: directories of files whose names are made of a few parts.    *)
(***************************************************************************)
NameParts == {<<"a">>, <<"_">>, Str_csv}

Str_txt == <<"a", ".", "t", "x", "t">>

DirNames ==
    {Flatten(ps) \o Str_csv : ps \in SeqsUpTo(NameParts, MaxParts)}
        \cup {Str_txt}

InitDiscover ==
    /\ UtilIdle
    /\ listing \in {l \in SeqsUpTo(DirNames, MaxFiles) : Distinct(l)}
    /\ health = [f \in Range(listing) |-> "ok"]
    /\ store = <<>> /\ store0 = <<>>
    /\ engine = "unset"
    /\ NewObject

NextDiscover == \E t \in BOOLEAN : Construct(t)

SpecDiscover == InitDiscover /\ [][NextDiscover]_vars


(***************************************************************************)
(* Loading: a directory of a few named files, a store that holds tables    *)
(* already, files pandas cannot read or sqlite cannot take, and a handle   *)
(* the caller may have assigned to the public attribute engine (create_db  *)
(* never assigns one).                                                     *)
(***************************************************************************)
File_a_aa == <<"a", "_", "a", "a">> \o Str_csv

File_aa == <<"a", "a">> \o Str_csv

File_a_ab == <<"a", "_", "a", "b">> \o Str_csv

LoadNames == {File_a_aa, File_aa, File_a_ab}

Table_zz == <<"z", "z">>

\* Tables the store may hold before the first load: one no file maps to, one
\* that files map to with truncate, one that a file maps to without.
PriorTables == {Table_zz, re_search(File_aa).group, File_aa}

InitLoad ==
    /\ UtilIdle
    /\ listing \in {l \in SeqsUpTo(LoadNames, MaxFiles) : Distinct(l)}
    /\ health \in [Range(listing) -> {"ok", "unreadable", "unwritable"}]
    /\ store \in UNION {[T -> {OldRows}] : T \in SUBSET PriorTables}
    /\ store0 = store
    /\ engine \in {"unset", "set"}
    /\ NewObject

NextLoad ==
    \/ \E t \in BOOLEAN : Construct(t)
    \/ create_db
    \/ to_db

SpecLoad == InitLoad /\ [][NextLoad]_vars

(***************************************************************************)
(* Classification.                                                         *)
(***************************************************************************)
NextClassify == Classify /\ UNCHANGED dirVars

SpecClassify == InitClassify /\ [][NextClassify]_vars

NextDrop == Drop /\ UNCHANGED dirVars

SpecDrop == InitDrop /\ [][NextDrop]_vars

NextImpute == Impute /\ UNCHANGED dirVars

SpecImpute == InitImpute /\ [][NextImpute]_vars

NextHeader ==
    \/ (\E sep \in {DefaultSep, <<" ">>} : Collapse(sep)) /\ UNCHANGED dirVars
    \/ Inflate /\ UNCHANGED dirVars

SpecHeader == InitHeader /\ [][NextHeader]_vars

NextMerge == Merge /\ UNCHANGED dirVars

SpecMerge == InitMerge /\ [][NextMerge]_vars

(***************************************************************************)
(* C1: get_featuredata and get_metadata, called with the same columns,     *)
(* marker and prefix flag, return disjoint sets of columns whose union is  *)
(* the set of all columns.                                                 *)
(***************************************************************************)
C1_Partition ==
    result.op = "classify" =>
        /\ Range(result.f_cols) \cap Range(result.m_cols) = {}
        /\ Range(result.f_cols) \cup Range(result.m_cols) = Range(data.columns)

\* Both policies split a table into a non-empty part of each kind.
C1_Witness ==
    /\ result.op = "classify"
    /\ ~args.prefix
    /\ result.f_cols # <<>>
    /\ \E i \in DOMAIN result.m_cols :
          ~StartsWith(result.m_cols[i], args.metadata_string)

(***************************************************************************)
(* What the claims about the ingestion speak of.                           *)
(***************************************************************************)
Called == constructed \/ raised = "AttributeError"

Discovered == SelectSeq(listing, LAMBDA i : EndsWith(i, Str_csv))

Stem(f) == SubSeq(f, 1, Len(f) - Len(Str_csv))

HasUnderscore(s) == \E i \in DOMAIN s : s[i] = "_"

AfterLastUnderscore(s) ==
    SubSeq(s, Max({i \in DOMAIN s : s[i] = "_"}) + 1, Len(s))

SameTable(st1, st2, n) ==
    /\ n \in DOMAIN st1 <=> n \in DOMAIN st2
    /\ n \in DOMAIN st1 => st1[n] = st2[n]

AllTables == DOMAIN store \cup DOMAIN store0 \cup Range(csv_files)

\* The table n of st is what a load of the files 1..k makes of it: the rows
\* of the last of them that maps to n, or what store0 held when none does.
LoadedUpTo(st, k, n) ==
    LET J == {j \in 1..k : csv_files[j] = n}
    IN  IF J = {} THEN SameTable(st, store0, n)
        ELSE n \in DOMAIN st /\ st[n] = Rows(full_paths[Max(J)])

(***************************************************************************)
(* C2 as claimed: when to_db has ended, every readable and writable file   *)
(* (that no later file maps to the same table) is in the store, whatever   *)
(* happened to the other files.                                            *)
(***************************************************************************)
C2_Original ==
    (db_status # "none" /\ engine = "set") =>
        \A i \in DOMAIN full_paths :
            (/\ health[full_paths[i]] = "ok"
             /\ \A j \in DOMAIN full_paths : j > i => csv_files[j] # csv_files[i])
            => /\ csv_files[i] \in DOMAIN store
               /\ store[csv_files[i]] = Rows(full_paths[i])

(***************************************************************************)
(* C2 as amended: a file that fails ends to_db there with the error        *)
(* raised: the files before it are loaded, the failing file is not, and no *)
(* later file is touched; to_db only returns when no file failed.          *)
(***************************************************************************)
C2_AbortsAtFailure ==
    /\ db_status = "raised" =>
          /\ db_at \in DOMAIN full_paths
          /\ raised # "none"
          /\ \A n \in AllTables \ {csv_files[db_at]} :
                LoadedUpTo(store, db_at - 1, n)
          /\ TableOf(store, csv_files[db_at]) # Rows(full_paths[db_at])
    /\ db_status = "done" =>
          \A i \in DOMAIN full_paths :
              health[full_paths[i]] = "ok" /\ engine = "set"

\* The first file failed, and a later good file was left out of the store.
C2_Witness ==
    /\ db_status = "raised" /\ engine = "set" /\ db_at = 1
    /\ \E j \in DOMAIN full_paths :
          /\ j > 1
          /\ health[full_paths[j]] = "ok"
          /\ csv_files[j] # csv_files[1]
          /\ TableOf(store, csv_files[j]) # Rows(full_paths[j])

(***************************************************************************)
(* C3: after a to_db that went through, each derived table holds exactly   *)
(* the rows of the last file that maps to it, whatever it held before, the *)
(* other tables are as they were, and a to_db on a store that a load of    *)
(* the same files has made leaves it as it is.                             *)
(***************************************************************************)
C3_Replace ==
    db_status = "done" =>
        /\ \A n \in AllTables : LoadedUpTo(store, Len(full_paths), n)
        /\ (\A j \in DOMAIN csv_files :
               /\ csv_files[j] \in DOMAIN store0
               /\ \E k \in DOMAIN csv_files :
                     /\ csv_files[k] = csv_files[j]
                     /\ store0[csv_files[j]] = Rows(full_paths[k]))
           => store = store0

\* Two files map to one table that held other rows before the load.
C3_Witness ==
    /\ db_status = "done"
    /\ \E i, j \in DOMAIN csv_files :
          /\ i < j
          /\ csv_files[i] = csv_files[j]
          /\ csv_files[j] \in DOMAIN store0
          /\ store0[csv_files[j]] = OldRows
          /\ store[csv_files[j]] = Rows(full_paths[j])

(***************************************************************************)
(* C4 as claimed: with truncate the table name of a file whose name holds  *)
(* an underscore is the text between the last underscore and .csv; without *)
(* truncate it is the file name; there is one name per file, in order.     *)
(* (Stated for the directories whose .csv files all hold an underscore     *)
(* with some text after the last one.)                                     *)
(***************************************************************************)
C4_Original ==
    (/\ Called
     /\ \A i \in DOMAIN Discovered :
           /\ HasUnderscore(Stem(Discovered[i]))
           /\ AfterLastUnderscore(Stem(Discovered[i])) # <<>>)
    => /\ constructed
       /\ full_paths = Discovered
       /\ Len(csv_files) = Len(full_paths)
       /\ \A i \in DOMAIN Discovered :
             csv_files[i] = IF truncate
                            THEN AfterLastUnderscore(Stem(Discovered[i]))
                            ELSE Discovered[i]

(***************************************************************************)
(* C5 as claimed: with truncate the constructor fails whenever a file has  *)
(* no underscore in front of .csv.                                         *)
(***************************************************************************)
C5_Original ==
    (/\ Called /\ truncate
     /\ \E i \in DOMAIN Discovered : ~HasUnderscore(Stem(Discovered[i])))
    => ~constructed /\ raised = "AttributeError"

(***************************************************************************)
(* C5 as amended: with truncate a file without underscore makes the        *)
(* constructor fail only when fewer than two characters stand in front of  *)
(* .csv; with two or more its table name is all the text in front of .csv. *)
(***************************************************************************)
C5_FailsOnlyOnShortStem ==
    (Called /\ truncate) =>
        /\ (\E i \in DOMAIN Discovered :
               /\ ~HasUnderscore(Stem(Discovered[i]))
               /\ Len(Stem(Discovered[i])) < 2)
           => ~constructed /\ raised = "AttributeError"
        /\ (\A i \in DOMAIN Discovered :
               /\ ~HasUnderscore(Stem(Discovered[i]))
               /\ Len(Stem(Discovered[i])) >= 2)
           => constructed
        /\ constructed =>
              \A i \in DOMAIN Discovered :
                  ~HasUnderscore(Stem(Discovered[i]))
                  => csv_files[i] = Stem(Discovered[i])

\* An object built with truncate from a file name without underscore.
C5_Witness ==
    /\ constructed /\ truncate
    /\ \E i \in DOMAIN full_paths :
          /\ ~HasUnderscore(Stem(full_paths[i]))
          /\ csv_files[i] = Stem(full_paths[i])

(***************************************************************************)
(* What the claims about drop speak of.                                    *)
(***************************************************************************)
InRange(tn) == 0 <= tn /\ tn <= ThresholdDen

\* The rows of the result are the rows of data that hold no NaN in the
\* columns kept, in order and with their values.
RowsOfComplete ==
    /\ result.index =
          SelectSeq(data.index,
                    LAMBDA r : \A c \in Range(result.columns) :
                                  data.rows[r][c] # "NaN")
    /\ \A r \in Range(result.index) : \A c \in Range(result.columns) :
          result.rows[r][c] = data.rows[r][c]

C7_Original ==
    LET f_cols == get_featuredata(data, KwMarker(args.kwargs),
                                  KwPrefix(args.kwargs))
        m_cols == get_metadata(data, KwMarker(args.kwargs),
                               KwPrefix(args.kwargs))
    IN  (/\ result.op = "impute"
         /\ f_cols # <<>>
         /\ \A c \in Range(f_cols) : Present(data, c) # <<>>)
        => /\ result.raised = "none"
           /\ \A r \in Range(data.index) :
                 /\ \A c \in Range(m_cols) : result.rows[r][c] = data.rows[r][c]
                 /\ \A c \in Range(f_cols) : result.rows[r][c] # NaN

(***************************************************************************)
(* What the claims about the headers speak of.                             *)
(***************************************************************************)
NoWhitespace(h) ==
    \A i \in DOMAIN h : \A l \in 1..2 : \A k \in DOMAIN h[i][l] :
        ~IsSpace(h[i][l][k])

NoEmptyToken(h) == \A i \in DOMAIN h : \A l \in 1..2 : h[i][l] # <<>>

TokensOf(i) == split(data.columns[i][1])

(***************************************************************************)
(* C8 as claimed: a two-level header whose tokens hold no whitespace (and  *)
(* are not empty), collapsed with the default separator and then inflated, *)
(* comes back as it was.                                                   *)
(***************************************************************************)
C8_Original ==
    (/\ result.op = "inflate"
     /\ args.original # <<>>
     /\ args.sep = DefaultSep
     /\ NoWhitespace(args.original)
     /\ NoEmptyToken(args.original))
    => result.raised = "none" /\ result.header = args.original

Both(r) == data.col1[r] # "NaN" /\ data.col2[r] # "NaN"

ExactlyOne(r) == (data.col1[r] = "NaN") # (data.col2[r] = "NaN")

Coalesce(r) == IF data.col1[r] # "NaN" THEN data.col1[r] ELSE data.col2[r]

(***************************************************************************)
(* C10 as claimed: with exactly one value per row the result is the        *)
(* row-wise coalesce of the two columns, in the row order of the table and *)
(* of its length; rows where both hold a value get the value of col2.      *)
(***************************************************************************)
C10_Original ==
    result.op = "merge" =>
        /\ result.raised = "none"
        /\ Len(result.values) = Len(data.index)
        /\ \A i \in DOMAIN data.index :
              /\ ExactlyOne(data.index[i])
                 => result.values[i] = Coalesce(data.index[i])
              /\ Both(data.index[i])
                 => result.values[i] = data.col2[data.index[i]]

(***************************************************************************)
(* C10 as amended: with exactly one value per row the result is the        *)
(* row-wise coalesce, in the row order of the table and of its length; a   *)
(* row where both columns hold a value makes the call fail (ValueError:    *)
(* the concatenated column has that row label twice and is not realigned)  *)
(* instead of giving col2's value.                                         *)
(***************************************************************************)
C10_CoalesceOrRaise ==
    result.op = "merge" =>
        /\ (\A r \in Range(data.index) : ExactlyOne(r))
           => /\ result.raised = "none"
              /\ Len(result.values) = Len(data.index)
              /\ \A i \in DOMAIN data.index :
                    result.values[i] = Coalesce(data.index[i])
        /\ (\E r \in Range(data.index) : Both(r))
           => result.raised = "ValueError"

\* A value of col2 stands in front of a value of col1, in a table whose row
\* labels are not in increasing order.
C10_Witness ==
    /\ result.op = "merge" /\ result.raised = "none"
    /\ Len(data.index) > 1
    /\ \A r \in Range(data.index) : ExactlyOne(r)
    /\ data.col2[data.index[1]] # "NaN"
    /\ data.col1[data.index[2]] # "NaN"
    /\ data.index[1] > data.index[2]

=============================================================================
